---- MODULE Spec2Model ----
(***************************************************************************)
(* Model of package errx (github.com/1gm/errx): chained errors that carry  *)
(* a stack trace.                                                          *)
(*                                                                         *)
(* Strings are sequences of chunks (a chunk is a one-character string, or  *)
(* a longer piece of text that contains none of the characters the code    *)
(* looks for); "/" , ":" , " " and "\n" are always chunks of their own.    *)
(* *Error objects live in a heap, a sequence of records indexed by their   *)
(* address; an error interface value is a reference record.                *)
(***************************************************************************)
EXTENDS Integers, Sequences, FiniteSets, TLC

\* ------------------------------------------------------------------ bounds
\* Number of operations (constructor calls, AdjustCallerSkipLevel calls and
\* assignments to fields) in a behaviour.
MaxOps == 3
\* Largest callerSkipLevel explored.
MaxSkipLevel == 6
\* Width, in bits, of the modelled Go int (two's complement).
IntBits == 8
\* Longest function name and file path tried on trimGOPATH.
MaxNameLen == 3
MaxFileLen == 5
\* Longest call stack, short of the deep ones, tried on getStack.
MaxStackLen == 3

\* --------------------------------------------------------- string helpers
Max(S) == CHOOSE x \in S : \A y \in S : y <= x

\* strings.Repeat(s, count)
RECURSIVE Repeat(_, _)
Repeat(s, count) == IF count <= 0 THEN <<>> ELSE s \o Repeat(s, count - 1)

\* strings.Count(s, sep) for a one-chunk separator
Count(s, c) == Cardinality({k \in 1..Len(s) : s[k] = c})

\* strings.LastIndex(s, sep) for a one-chunk separator: 0-based index, -1 if absent
LastIndex(s, c) ==
    LET hits == {k \in 1..Len(s) : s[k] = c}
    IN  IF hits = {} THEN -1 ELSE Max(hits) - 1

\* strings.HasPrefix on chunk sequences
HasPrefix(s, p) == Len(p) <= Len(s) /\ SubSeq(s, 1, Len(p)) = p

\* strings.Replace(s, old, new, -1): every non-overlapping occurrence of old,
\* found left to right, is replaced by new (old is never empty here)
RECURSIVE Replace(_, _, _)
Replace(s, old, new) ==
    IF s = <<>> THEN <<>>
    ELSE IF old # <<>> /\ HasPrefix(s, old)
         THEN new \o Replace(SubSeq(s, Len(old) + 1, Len(s)), old, new)
         ELSE <<s[1]>> \o Replace(Tail(s), old, new)

\* fmt's %d of a non-negative int
Digit(d) == <<"0", "1", "2", "3", "4", "5", "6", "7", "8", "9">>[d + 1]
RECURSIVE Itoa(_)
Itoa(n) == IF n < 10 THEN <<Digit(n)>> ELSE Itoa(n \div 10) \o <<Digit(n % 10)>>

\* ------------------------------------------------------------ stack.go
minCallerSkipLevel == 4
maxStackDepth == 32
sep == "/"
sepLen == 1

\* Two's complement int arithmetic at the modelled width
IntMin == -(2 ^ (IntBits - 1))
IntMax == 2 ^ (IntBits - 1) - 1
WrapInt(x) == ((x - IntMin) % (2 ^ IntBits)) + IntMin

trimIndex_noReset(name, file) ==
    LET goal == Count(name, sep) + 2
        F[n \in 0..goal, i \in -1..Len(file)] ==
            IF n >= goal THEN i
            ELSE LET j == LastIndex(SubSeq(file, 1, i), sep)
                 IN  IF j = -1 THEN 0 ELSE F[n + 1, j]
    IN  F[0, Len(file)]

\* The loop of trimGOPATH: it runs goal = Count(name, sep) + 2 times, each time
\* moving i to the last separator of file[:i]; when none is left i becomes
\* -sepLen and the loop ends. The value of i after the loop.
trimIndex(name, file) ==
    LET goal == Count(name, sep) + 2
        F[n \in 0..goal, i \in -1..Len(file)] ==
            IF n >= goal THEN i
            ELSE LET j == LastIndex(SubSeq(file, 1, i), sep)
                 IN  IF j = -1 THEN -sepLen ELSE F[n + 1, j]
    IN  F[0, Len(file)]

\* trimGOPATH: file[i+sepLen:]
trimGOPATH(name, file) == SubSeq(file, trimIndex(name, file) + sepLen + 1, Len(file))

\* ------------------------------------------------- the runtime's call stack
\* What runtime.FuncForPC(pc) and (*Func).FileLine(pc) report for each program
\* counter that can be on the stack when a trace is captured.
FuncForPC(pc) ==
    CASE pc = "runtime.Callers" ->
           [Name |-> <<"runtime.Callers">>, Line |-> 262,
            File |-> <<"/", "go", "/", "src", "/", "runtime", "/", "extern.go">>]
      [] pc = "getStack" ->
           [Name |-> <<"g", "/", "errx.getStack">>, Line |-> 71,
            File |-> <<"/", "r", "/", "src", "/", "g", "/", "errx", "/", "stack.go">>]
      [] pc = "newErr" ->
           [Name |-> <<"g", "/", "errx.newErr">>, Line |-> 183,
            File |-> <<"/", "r", "/", "src", "/", "g", "/", "errx", "/", "error.go">>]
      [] pc = "wrapErr" ->
           [Name |-> <<"g", "/", "errx.wrapErr">>, Line |-> 197,
            File |-> <<"/", "r", "/", "src", "/", "g", "/", "errx", "/", "error.go">>]
      [] pc = "New" ->
           [Name |-> <<"g", "/", "errx.New">>, Line |-> 156,
            File |-> <<"/", "r", "/", "src", "/", "g", "/", "errx", "/", "error.go">>]
      [] pc = "Errorf" ->
           [Name |-> <<"g", "/", "errx.Errorf">>, Line |-> 162,
            File |-> <<"/", "r", "/", "src", "/", "g", "/", "errx", "/", "error.go">>]
      [] pc = "Wrap" ->
           [Name |-> <<"g", "/", "errx.Wrap">>, Line |-> 169,
            File |-> <<"/", "r", "/", "src", "/", "g", "/", "errx", "/", "error.go">>]
      [] pc = "Wrapf" ->
           [Name |-> <<"g", "/", "errx.Wrapf">>, Line |-> 176,
            File |-> <<"/", "r", "/", "src", "/", "g", "/", "errx", "/", "error.go">>]
      [] pc = "genError" ->
           [Name |-> <<"g", "/", "errx_test.genError">>, Line |-> 25,
            File |-> <<"/", "r", "/", "src", "/", "g", "/", "errx", "/", "stack_test.go">>]
      [] pc = "main" ->
           [Name |-> <<"main.main">>, Line |-> 13,
            File |-> <<"/", "r", "/", "src", "/", "examples", "/", "main.go">>]
      [] pc = "goexit" ->
           [Name |-> <<"runtime.goexit">>, Line |-> 2362,
            File |-> <<"/", "go", "/", "src", "/", "runtime", "/", "asm_amd64.s">>]

\* Whether runtime.FuncForPC(pc) finds a function; for "unknown" it returns nil
Resolvable(pc) == pc # "unknown"

\* The callers of a constructor, innermost (the function that calls New, Errorf,
\* Wrap or Wrapf) first.
CallStacks == {<<"main", "goexit">>}

\* The goroutine's stack when runtime.Callers runs inside getStack: Callers,
\* getStack, newErr or wrapErr, the exported constructor, then its callers.
FullStack(internal, ctor, cs) == <<"runtime.Callers", "getStack", internal, ctor>> \o cs

\* runtime.Callers(skip, pcs[:]) with len(pcs) = maxStackDepth: skip 0 is
\* Callers itself; at most maxStackDepth program counters are written.
Callers(skip, full) ==
    LET last == IF Len(full) < skip + maxStackDepth THEN Len(full) ELSE skip + maxStackDepth
    IN  IF skip < 0 THEN full ELSE SubSeq(full, skip + 1, last)

\* A StackTrace value: a Go slice, nil or holding frames.
NilTrace == [isNil |-> TRUE, frames |-> <<>>]

StackFrame(pc) ==
    LET f == FuncForPC(pc)
    IN  [FunctionName |-> f.Name, FileName |-> f.File,
         TrimmedFileName |-> trimGOPATH(f.Name, f.File), Line |-> f.Line]

getStack_skip3(level, full) ==
    LET pcs == Callers(level - 1, full)
    IN  [isNil |-> pcs = <<>>, frames |-> [k \in 1..Len(pcs) |-> StackFrame(pcs[k])]]

\* getStack: st starts as the nil slice and gets one frame appended per
\* program counter that runtime.Callers(callerSkipLevel, ...) collected.
getStack(level, full) ==
    LET pcs == Callers(level, full)
    IN  [isNil |-> pcs = <<>>, frames |-> [k \in 1..Len(pcs) |-> StackFrame(pcs[k])]]

\* getStack calls pcFunc.Name() and pcFunc.FileLine(pc) on whatever FuncForPC
\* returned; (*Func).Name accepts a nil receiver, (*Func).FileLine reads
\* through it: a collected program counter without a function makes getStack
\* panic with a nil pointer dereference.
getStackPanics(level, full) ==
    \E k \in 1..Len(Callers(level, full)) : ~Resolvable(Callers(level, full)[k])

\* (*StackFrame).String
StackFrameString(f) ==
    <<" ", " ", "at", " ">> \o f.FunctionName \o <<"(">> \o f.TrimmedFileName
        \o <<":">> \o Itoa(f.Line) \o <<")", "\n">>

\* (StackTrace).String
RECURSIVE FramesString(_)
FramesString(fs) ==
    IF fs = <<>> THEN <<>> ELSE StackFrameString(Head(fs)) \o FramesString(Tail(fs))

StackTraceString(st) == FramesString(st.frames)

AdjustedLevel_noclamp(level, amt) == WrapInt(level + amt)

\* AdjustCallerSkipLevel: the value callerSkipLevel gets
AdjustedLevel(level, amt) ==
    LET newCallerSkipLevel == WrapInt(level + amt)
    IN  IF newCallerSkipLevel >= minCallerSkipLevel
        THEN newCallerSkipLevel
        ELSE minCallerSkipLevel

\* ------------------------------------------------------------ error.go
padding == <<" ">>
separator == <<" ", " ">>
ColonSep == <<":", " ">>

\* error interface values: nil, a *Error (an address in the heap), the nil
\* *Error pointer, or an error of another type (an opaque value with an
\* identity and a text)
NilRef == [kind |-> "nil", ref |-> 0]
NilPtrRef == [kind |-> "nilptr", ref |-> 0]
NodeRef(a) == [kind |-> "node", ref |-> a]
OpaqueRef(i) == [kind |-> "opaque", ref |-> i]

\* errors.New values of the caller: 1 has the text x, 2 the empty text
OpaqueIds == {1, 2}
OpaqueText(i) == IF i = 2 THEN <<>> ELSE <<"x">>

\* (*Error).isZero
isZero(e) == e.Inner = NilRef /\ e.Message = <<>> /\ e.StackTrace.isNil

pad_always(b, str) == b \o str

\* pad: writes str unless the buffer is still empty
pad(b, str) == IF Len(b) = 0 THEN b ELSE b \o str


\* The text of an error of another type: its Error() method
OpaqueError(r) == OpaqueText(r.ref)

StackBlock_constSeparator(st, depth, sepArg) ==
    IF depth > 0
    THEN LET prefix == Repeat(<<" ", " ">>, depth + 1)
         IN  Replace(StackTraceString(st), SubSeq(prefix, depth * 2 + 1, Len(prefix)), prefix)
    ELSE StackTraceString(st)

\* The stack block (*Error).error appends for a node at the given depth: below
\* depth 0 every occurrence of prefix[depth*2:] in the trace text is replaced
\* by prefix, where prefix is the separator argument repeated depth+1 times.
StackBlock(st, depth, sepArg) ==
    IF depth > 0
    THEN LET prefix == Repeat(sepArg, depth + 1)
         IN  Replace(StackTraceString(st), SubSeq(prefix, depth * 2 + 1, Len(prefix)), prefix)
    ELSE StackTraceString(st)

RECURSIVE error_spacePad(_, _, _, _, _)
error_spacePad(h, a, depth, sepArg, printStack) ==
    LET e  == h[a]
        b1 == IF e.Message # <<>> THEN pad(<<>>, padding) \o e.Message ELSE <<>>
        b2 == IF e.Inner = NilRef THEN b1
              ELSE IF e.Inner.kind = "node"
                   THEN IF ~isZero(h[e.Inner.ref])
                        THEN pad(b1, sepArg)
                               \o error_spacePad(h, e.Inner.ref, depth + 1, sepArg, printStack)
                        ELSE b1
                   ELSE pad(b1, padding) \o OpaqueError(e.Inner)
    IN  IF ~e.StackTrace.isNil /\ printStack
        THEN b2 \o <<"\n">> \o StackBlock(e.StackTrace, depth, sepArg)
        ELSE b2

\* (*Error).error(depth, separator, printStack) of the *Error at address a
RECURSIVE error(_, _, _, _, _)
error(h, a, depth, sepArg, printStack) ==
    LET e  == h[a]
        b1 == IF e.Message # <<>> THEN pad(<<>>, padding) \o e.Message ELSE <<>>
        b2 == IF e.Inner = NilRef THEN b1
              ELSE IF e.Inner.kind = "node"
                   THEN IF ~isZero(h[e.Inner.ref])
                        THEN pad(b1, sepArg)
                               \o error(h, e.Inner.ref, depth + 1, sepArg, printStack)
                        ELSE b1
                   ELSE pad(b1, sepArg) \o OpaqueError(e.Inner)
    IN  IF ~e.StackTrace.isNil /\ printStack
        THEN b2 \o <<"\n">> \o StackBlock(e.StackTrace, depth, sepArg)
        ELSE b2

\* (*Error).Error: message-only rendering
Error(h, a) == error(h, a, 0, ColonSep, FALSE)

\* (*Error).Format: what the verb c prints, with or without the '-' flag
Format(h, a, c, minus) ==
    IF c = "v"
    THEN IF minus THEN error(h, a, 0, ColonSep, FALSE) ELSE error(h, a, 0, ColonSep, TRUE)
    ELSE IF c = "s"
         THEN IF minus THEN error(h, a, 0, ColonSep, FALSE) ELSE error(h, a, 0, ColonSep, TRUE)
         ELSE <<>>

\* error.go's (*Error).error(depth): it always writes the stack trace, joins
\* *Error links with a line break and an indentation, other errors with a space.
\* (error.go holds a *StackTrace, which its getStack never leaves nil; here it
\* reads the traces of the heap, nil after a capture of zero frames.)
RECURSIVE errorDepth(_, _, _)
errorDepth(h, a, depth) ==
    LET e  == h[a]
        b1 == IF e.Message # <<>> THEN pad(<<>>, padding) \o e.Message ELSE <<>>
        b2 == IF e.Inner = NilRef THEN b1
              ELSE IF e.Inner.kind = "node"
                   THEN IF ~isZero(h[e.Inner.ref])
                        THEN pad(b1, <<"\n">> \o Repeat(separator, depth + 1))
                               \o errorDepth(h, e.Inner.ref, depth + 1)
                        ELSE b1
                   ELSE pad(b1, padding) \o OpaqueError(e.Inner)
    IN  IF ~e.StackTrace.isNil
        THEN b2 \o <<"\n">> \o StackBlock(e.StackTrace, depth, separator)
        ELSE b2

\* error.go's (*Error).Error
ErrorWithDepth(h, a) == errorDepth(h, a, 0)

\* newErr: the *Error it allocates
newErr(level, message, ctor, cs) ==
    [Inner |-> NilRef, Message |-> message,
     StackTrace |-> getStack(level, FullStack("newErr", ctor, cs))]

wrapErr_cutInner(h, level, err, message, ctor, cs) ==
    IF err.kind = "node"
    THEN h \o <<[Inner |-> NodeRef(Len(h) + 2), Message |-> message, StackTrace |-> NilTrace],
                [h[err.ref] EXCEPT !.Inner = NilRef]>>
    ELSE Append(h, [Inner |-> err, Message |-> message,
                    StackTrace |-> getStack(level, FullStack("wrapErr", ctor, cs))])

wrapErr_alwaysStack(h, level, err, message, ctor, cs) ==
    IF err.kind = "node"
    THEN h \o <<[Inner |-> NodeRef(Len(h) + 2), Message |-> message,
                 StackTrace |-> getStack(level, FullStack("wrapErr", ctor, cs))],
                h[err.ref]>>
    ELSE Append(h, [Inner |-> err, Message |-> message,
                    StackTrace |-> getStack(level, FullStack("wrapErr", ctor, cs))])

wrapErr_alias(h, level, err, message, ctor, cs) ==
    IF err.kind = "node"
    THEN h \o <<[Inner |-> err, Message |-> message, StackTrace |-> NilTrace], h[err.ref]>>
    ELSE Append(h, [Inner |-> err, Message |-> message,
                    StackTrace |-> getStack(level, FullStack("wrapErr", ctor, cs))])

\* wrapErr: the heap after the call; the returned *Error e is at Len(h) + 1 and,
\* when err is a *Error, its copy is at Len(h) + 2
wrapErr(h, level, err, message, ctor, cs) ==
    IF err.kind = "node"
    THEN h \o <<[Inner |-> NodeRef(Len(h) + 2), Message |-> message, StackTrace |-> NilTrace],
                h[err.ref]>>
    ELSE Append(h, [Inner |-> err, Message |-> message,
                    StackTrace |-> getStack(level, FullStack("wrapErr", ctor, cs))])

\* wrapErr panics when err holds the nil *Error: the type assertion succeeds
\* and copied := *inner dereferences nil
wrapErrPanics(err) == err.kind = "nilptr"

\* (*Error).error panics when a node of the chain holds the nil *Error as its
\* Inner: the type assertion succeeds and inner.isZero() dereferences nil
RECURSIVE errorPanics(_, _)
errorPanics(h, a) ==
    \/ h[a].Inner.kind = "nilptr"
    \/ h[a].Inner.kind = "node" /\ errorPanics(h, h[a].Inner.ref)

\* GetInner
GetInner(h, err) == IF err.kind = "node" THEN h[err.ref].Inner ELSE NilRef

\* GetStackTrace
GetStackTrace(h, err) == IF err.kind = "node" THEN h[err.ref].StackTrace ELSE NilTrace

\* ------------------------------------------------------------ the state
VARIABLES
    heap,             \* the *Error objects allocated so far, by address
    origin,           \* per address: how the object came to be
    callerSkipLevel,  \* stack.go's package variable
    lastCall,         \* the last operation, its arguments and what it returned
    nops,             \* operations performed so far
    trimIn,           \* trimGOPATH's arguments
    trimOut,          \* trimGOPATH's result
    capIn,            \* getStack on its own: the skip level and the call stack
    capOut            \* getStack on its own: what the call did

vars == <<heap, origin, callerSkipLevel, lastCall, nops, trimIn, trimOut, capIn, capOut>>

Addrs == 1..Len(heap)

NoCall == [op |-> "none", ret |-> 0, err |-> NilRef, msg |-> <<>>, cs |-> <<>>, level |-> 0,
           amt |-> 0, panic |-> FALSE]

NoCapture == [level |-> 0, ctor |-> "New", cs |-> <<>>, done |-> FALSE]
NoCaptured == [panic |-> FALSE, st |-> NilTrace]

NoTrim == [name |-> <<>>, file |-> <<>>, done |-> FALSE]

Init ==
    /\ heap = <<>>
    /\ origin = <<>>
    /\ callerSkipLevel = minCallerSkipLevel
    /\ lastCall = NoCall
    /\ nops = 0
    /\ trimIn = NoTrim
    /\ trimOut = <<>>
    /\ capIn = NoCapture
    /\ capOut = NoCaptured

\* The messages tried by the k-th operation: the empty one and one that no
\* other operation uses
Letter(k) == <<"a", "b", "c", "d", "e", "f">>[((k - 1) % 6) + 1]
Messages == {<<>>, <<Letter(nops + 1)>>}

\* What newErr leaves behind: the new *Error, or nothing when getStack panicked
NewCall(op, message, cs) ==
    LET boom == getStackPanics(callerSkipLevel, FullStack("newErr", op, cs))
    IN  /\ nops < MaxOps
        /\ ~lastCall.panic
        /\ heap' = IF boom THEN heap
                   ELSE Append(heap, newErr(callerSkipLevel, message, op, cs))
        /\ origin' = IF boom THEN origin
                     ELSE Append(origin, [kind |-> "new", from |-> NilRef])
        /\ lastCall' = [NoCall EXCEPT !.op = op, !.ret = IF boom THEN 0 ELSE Len(heap) + 1,
                                      !.msg = message, !.cs = cs, !.level = callerSkipLevel,
                                      !.panic = boom]
        /\ nops' = nops + 1
        /\ UNCHANGED <<callerSkipLevel, trimIn, trimOut, capIn, capOut>>

\* New(message), called with the call stack cs
New(message, cs) == NewCall("New", message, cs)

\* Errorf(format, args...), message being fmt.Sprintf(format, args...)
Errorf(message, cs) == NewCall("Errorf", message, cs)

\* The error values a caller can pass to Wrap: nil, the nil *Error, one of its
\* own errors, or a *Error it holds (returned to it, or read from an Inner field)
Causes ==
    {NilRef, NilPtrRef} \cup {OpaqueRef(i) : i \in OpaqueIds} \cup {NodeRef(a) : a \in Addrs}

OriginsAfterWrap(err) ==
    IF err.kind = "node"
    THEN origin \o <<[kind |-> "wrap", from |-> err], [kind |-> "copy", from |-> err]>>
    ELSE Append(origin, [kind |-> "wrap", from |-> err])

\* What wrapErr leaves behind: the new *Error (and the copy of a *Error cause),
\* or nothing when it panicked
WrapCall(op, err, message, cs) ==
    LET boom == \/ wrapErrPanics(err)
                \/ /\ err.kind # "node"
                   /\ getStackPanics(callerSkipLevel, FullStack("wrapErr", op, cs))
    IN  /\ nops < MaxOps
        /\ ~lastCall.panic
        /\ heap' = IF boom THEN heap
                   ELSE wrapErr(heap, callerSkipLevel, err, message, op, cs)
        /\ origin' = IF boom THEN origin ELSE OriginsAfterWrap(err)
        /\ lastCall' = [NoCall EXCEPT !.op = op, !.ret = IF boom THEN 0 ELSE Len(heap) + 1,
                                      !.err = err, !.msg = message, !.cs = cs,
                                      !.level = callerSkipLevel, !.panic = boom]
        /\ nops' = nops + 1
        /\ UNCHANGED <<callerSkipLevel, trimIn, trimOut, capIn, capOut>>

\* Wrap(err, message), called with the call stack cs
Wrap(err, message, cs) == WrapCall("Wrap", err, message, cs)

\* Wrapf(err, format, args...), message being fmt.Sprintf(format, args...)
Wrapf(err, message, cs) == WrapCall("Wrapf", err, message, cs)

\* The amounts tried: the extremes of int, one step down, one and two steps up
AdjustAmounts == {IntMin, -1, 1, 2, IntMax}

\* AdjustCallerSkipLevel(amt)
AdjustCallerSkipLevel(amt) ==
    /\ nops < MaxOps
    /\ ~lastCall.panic
    /\ AdjustedLevel(callerSkipLevel, amt) <= MaxSkipLevel
    /\ callerSkipLevel' = AdjustedLevel(callerSkipLevel, amt)
    /\ lastCall' = [NoCall EXCEPT !.op = "AdjustCallerSkipLevel", !.amt = amt,
                                  !.level = callerSkipLevel]
    /\ nops' = nops + 1
    /\ UNCHANGED <<heap, origin, trimIn, trimOut, capIn, capOut>>

\* The values a caller assigns to the exported fields of a *Error. Inner gets
\* nil or one of the caller's own errors: linking a *Error into another chain
\* by hand would be the caller's aliasing, not the package's.
FieldValues(field) ==
    CASE field = "Message" -> {<<>>, <<"z">>}
      [] field = "Inner" -> {NilRef, OpaqueRef(1)}
      [] field = "StackTrace" ->
           {NilTrace, getStack(minCallerSkipLevel, FullStack("newErr", "New", <<"goexit">>))}

\* A caller's assignment e.field = v to the *Error at address a
Assign(a, field, v) ==
    /\ nops < MaxOps
    /\ ~lastCall.panic
    /\ a \in Addrs
    /\ heap[a][field] # v
    /\ heap' = [heap EXCEPT ![a][field] = v]
    /\ lastCall' = [NoCall EXCEPT !.op = "Assign", !.ret = a, !.level = callerSkipLevel]
    /\ nops' = nops + 1
    /\ UNCHANGED <<origin, callerSkipLevel, trimIn, trimOut, capIn, capOut>>

Next ==
    \/ \E m \in Messages, cs \in CallStacks : New(m, cs)
    \/ \E m \in Messages, cs \in CallStacks : Errorf(m, cs)
    \/ \E err \in Causes, m \in Messages, cs \in CallStacks : Wrap(err, m, cs)
    \/ \E err \in Causes, m \in Messages, cs \in CallStacks : Wrapf(err, m, cs)
    \/ \E amt \in AdjustAmounts : AdjustCallerSkipLevel(amt)
    \/ \E a \in Addrs, field \in {"Message", "Inner", "StackTrace"} :
          \E v \in FieldValues(field) : Assign(a, field, v)

Spec == Init /\ [][Next]_vars


\* ------------------------------------------------ trimGOPATH on its own
\* All chunk sequences over alphabet of length at most n
SeqsUpTo(alphabet, n) == UNION {[1..k -> alphabet] : k \in 0..n}

\* The example of trimGOPATH's comment
ExampleName == <<"pkg", "/", "sub.Type.Method">>
ExampleFile == <<"/", "home", "/", "user", "/", "src", "/", "pkg", "/", "sub", "/", "file.go">>

TrimNames == SeqsUpTo({"/", "n"}, MaxNameLen) \cup {ExampleName}
TrimFiles == SeqsUpTo({"/", "f"}, MaxFileLen) \cup {ExampleFile}

InitTrim ==
    /\ heap = <<>>
    /\ origin = <<>>
    /\ callerSkipLevel = minCallerSkipLevel
    /\ lastCall = NoCall
    /\ nops = 0
    /\ trimIn \in [name : TrimNames, file : TrimFiles, done : {FALSE}]
    /\ trimOut = <<>>
    /\ capIn = NoCapture
    /\ capOut = NoCaptured

\* One call trimGOPATH(name, file)
Trim ==
    /\ ~trimIn.done
    /\ trimOut' = trimGOPATH(trimIn.name, trimIn.file)
    /\ trimIn' = [trimIn EXCEPT !.done = TRUE]
    /\ UNCHANGED <<heap, origin, callerSkipLevel, lastCall, nops, capIn, capOut>>

NextTrim == Trim

SpecTrim == InitTrim /\ [][NextTrim]_vars

(***************************************************************************)
(* getStack on its own: one capture under a skip level and a call stack    *)
(* drawn from small sets that hold stacks shorter than the skip level,     *)
(* stacks deeper than maxStackDepth and program counters without a         *)
(* function.                                                               *)
(***************************************************************************)
CapturePcs == {"main", "unknown"}

\* Recursion deeper than maxStackDepth, once with a program counter without a
\* function beyond the frames a default capture collects
DeepStacks ==
    {Repeat(<<"main">>, maxStackDepth + 2),
     Repeat(<<"main">>, maxStackDepth + 1) \o <<"unknown">>}

CaptureStacks ==
    UNION {[1..n -> CapturePcs] : n \in 0..MaxStackLen} \cup DeepStacks

CaptureLevels == minCallerSkipLevel..MaxSkipLevel

InitCapture ==
    /\ heap = <<>>
    /\ origin = <<>>
    /\ callerSkipLevel = minCallerSkipLevel
    /\ lastCall = NoCall
    /\ nops = 0
    /\ trimIn = NoTrim
    /\ trimOut = <<>>
    /\ capIn \in [level : CaptureLevels, ctor : {"New", "Wrap"}, cs : CaptureStacks,
                  done : {FALSE}]
    /\ capOut = NoCaptured

\* The stack getStack sees when the constructor capIn.ctor was called from capIn.cs
CaptureFull ==
    FullStack(IF capIn.ctor = "New" THEN "newErr" ELSE "wrapErr", capIn.ctor, capIn.cs)

\* One call getStack()
Capture ==
    /\ ~capIn.done
    /\ capOut' = IF getStackPanics(capIn.level, CaptureFull)
                 THEN [panic |-> TRUE, st |-> NilTrace]
                 ELSE [panic |-> FALSE, st |-> getStack(capIn.level, CaptureFull)]
    /\ capIn' = [capIn EXCEPT !.done = TRUE]
    /\ UNCHANGED <<heap, origin, callerSkipLevel, lastCall, nops, trimIn, trimOut>>

NextCapture == Capture

SpecCapture == InitCapture /\ [][NextCapture]_vars

\* ------------------------------------------------------------ claims

\* The positions (1-based) of the separators of a path
SepPositions(file) == {k \in 1..Len(file) : file[k] = "/"}

\* The position of the q-th separator of file counted from its end
SepFromEnd(file, q) ==
    CHOOSE k \in SepPositions(file) :
        Cardinality({j \in SepPositions(file) : j >= k}) = q

IsSuffix(t, s) == Len(t) <= Len(s) /\ SubSeq(s, Len(s) - Len(t) + 1, Len(s)) = t

\* C9: with N the number of "/"-delimited segments of the function name, a
\* file path holding at least N+1 separators is cut right after its (N+1)-th
\* separator from the end, a path holding fewer is returned as it is; the
\* result is a suffix of the path, the slice file[i+sepLen:] is within range,
\* and the example of the comment gives pkg/sub/file.go.
C9_TrimGOPATH ==
    trimIn.done =>
        LET name == trimIn.name
            file == trimIn.file
            N    == Cardinality(SepPositions(name)) + 1
            lo   == trimIndex(name, file) + sepLen
        IN  /\ IF Cardinality(SepPositions(file)) >= N + 1
               THEN trimOut = SubSeq(file, SepFromEnd(file, N + 1) + 1, Len(file))
               ELSE trimOut = file
            /\ IsSuffix(trimOut, file)
            /\ 0 <= lo /\ lo <= Len(file)
            /\ (name = ExampleName /\ file = ExampleFile)
                  => trimOut = <<"pkg", "/", "sub", "/", "file.go">>

\* C9 witness: both branches have run: a path with enough separators has been
\* cut to a proper suffix that still holds a separator
C9_Witness ==
    /\ trimIn.done
    /\ Cardinality(SepPositions(trimIn.name)) = 1
    /\ Cardinality(SepPositions(trimIn.file)) >= 4
    /\ Len(trimOut) < Len(trimIn.file)
    /\ Cardinality(SepPositions(trimOut)) = 2


\* The addresses of the *Error chain that starts at a, outermost first
RECURSIVE Chain(_, _)
Chain(h, a) ==
    <<a>> \o (IF h[a].Inner.kind = "node" THEN Chain(h, h[a].Inner.ref) ELSE <<>>)

Last(s) == s[Len(s)]

\* The texts of the chain that starts at a, outermost first: the message of
\* each *Error and, when the chain ends in an error of another type, its text
Texts(h, a) ==
    LET c == Chain(h, a)
    IN  [k \in 1..Len(c) |-> h[c[k]].Message]
          \o (IF h[Last(c)].Inner.kind = "opaque"
              THEN <<OpaqueText(h[Last(c)].Inner.ref)>> ELSE <<>>)

\* The strings of ss joined by d
RECURSIVE Join(_, _)
Join(ss, d) ==
    IF ss = <<>> THEN <<>>
    ELSE IF Len(ss) = 1 THEN ss[1]
    ELSE ss[1] \o d \o Join(Tail(ss), d)

RECURSIVE NonEmpty(_)
NonEmpty(ss) ==
    IF ss = <<>> THEN <<>>
    ELSE (IF ss[1] = <<>> THEN <<>> ELSE <<ss[1]>>) \o NonEmpty(Tail(ss))

Chars(s) == {s[k] : k \in 1..Len(s)}

CaptureOps == {"New", "Errorf", "Wrap", "Wrapf"}

\* C1: a chain of *Error nodes that ends with no inner error and whose
\* messages are all non-empty (New followed by Wrap calls) has the Error()
\* string made of its messages, outermost first, joined by ": ".
C1_MessagesJoined ==
    \A a \in Addrs :
        LET c == Chain(heap, a)
        IN  (/\ heap[Last(c)].Inner = NilRef
             /\ \A k \in 1..Len(c) : heap[c[k]].Message # <<>>)
            => Error(heap, a) = Join([k \in 1..Len(c) |-> heap[c[k]].Message], <<":", " ">>)

\* C1 witness: New("a"), Wrap(_, "b"), Wrap(_, "c") has been rendered as c: b: a
C1_Witness ==
    \E a \in Addrs :
        /\ Len(Chain(heap, a)) = 3
        /\ origin[Last(Chain(heap, a))].kind = "copy"
        /\ Error(heap, a) = <<"c", ":", " ", "b", ":", " ", "a">>

\* C2: the Error() string of a node just returned by New or Errorf is its
\* message, and no Error() string holds a line break or frame text; stated
\* for every (*Error).Error of the sources, error.go's and the later one.
C2_DefaultMessageOnly ==
    \A a \in Addrs :
        \A str \in {Error(heap, a), ErrorWithDepth(heap, a)} :
            /\ "\n" \notin Chars(str)
            /\ "at" \notin Chars(str)
            /\ (lastCall.op \in {"New", "Errorf"} /\ lastCall.ret = a) => str = lastCall.msg

\* C3: the node Wrap or Wrapf has just returned has a nil StackTrace when the
\* cause is a *Error and a non-nil one when the cause is an error of another
\* type.
C3_WrapStackPolicy ==
    lastCall.op \in {"Wrap", "Wrapf"} =>
        /\ lastCall.err.kind = "node" => heap[lastCall.ret].StackTrace.isNil
        /\ lastCall.err.kind = "opaque" => ~heap[lastCall.ret].StackTrace.isNil

\* The wrappers built from the *Error at address c
WrappersOf(org, c) ==
    {w \in 1..Len(org) : org[w].kind = "wrap" /\ org[w].from = NodeRef(c)}

\* C4: Wrap copies a *Error cause: the wrapper's Inner is a new object holding
\* the cause's fields, never the cause itself, and an assignment to a field of
\* the cause changes neither the fields of a wrapper built from it nor what the
\* wrapper renders, with or without stacks.
C4_WrapCopies ==
    [][ /\ \A c \in 1..Len(heap') : \A w \in WrappersOf(origin', c) :
              heap'[w].Inner # NodeRef(c)
        /\ (lastCall'.op \in {"Wrap", "Wrapf"} /\ lastCall'.err.kind = "node") =>
              /\ heap'[lastCall'.ret].Inner.kind = "node"
              /\ heap'[heap'[lastCall'.ret].Inner.ref] = heap[lastCall'.err.ref]
        /\ lastCall'.op = "Assign" =>
              \A w \in WrappersOf(origin, lastCall'.ret) :
                  /\ heap'[w] = heap[w]
                  /\ Error(heap', w) = Error(heap, w)
                  /\ Format(heap', w, "v", FALSE) = Format(heap, w, "v", FALSE)
      ]_vars

\* C4 witness: after w = Wrap(c, m) a field of c has been assigned, and the
\* copy that w holds differs from c
C4_Witness ==
    /\ lastCall.op = "Assign"
    /\ \E w \in WrappersOf(origin, lastCall.ret) :
          /\ heap[w].Inner.kind = "node"
          /\ heap[heap[w].Inner.ref] # heap[lastCall.ret]

\* C5: the node Wrap or Wrapf has just returned for a cause E of another type
\* and a non-empty message renders as the message, ": " and E's text; its
\* Inner, also through GetInner, is E itself; GetInner and GetStackTrace of an
\* error that is no *Error are nil.
C5_WrapOpaque ==
    /\ \A i \in OpaqueIds :
          /\ GetInner(heap, OpaqueRef(i)) = NilRef
          /\ GetStackTrace(heap, OpaqueRef(i)).isNil
    /\ (lastCall.op \in {"Wrap", "Wrapf"} /\ lastCall.err.kind = "opaque") =>
          /\ heap[lastCall.ret].Inner = lastCall.err
          /\ GetInner(heap, NodeRef(lastCall.ret)) = lastCall.err
          /\ lastCall.msg # <<>> =>
                Error(heap, lastCall.ret)
                  = lastCall.msg \o <<":", " ">> \o OpaqueText(lastCall.err.ref)

\* C5 witness: Wrap(E, "a") with E's text x has been rendered as a: x
C5_Witness ==
    /\ lastCall.op = "Wrap"
    /\ lastCall.err = OpaqueRef(1)
    /\ Error(heap, lastCall.ret) = <<"a", ":", " ", "x">>
    /\ GetInner(heap, NodeRef(lastCall.ret)) = OpaqueRef(1)

\* C6: the Error() string of every chain is its non-empty texts, outermost
\* first, joined by ": ": an empty message or an empty cause text adds no text
\* and no separator.
C6_EmptyAddsNothing ==
    \A a \in Addrs : Error(heap, a) = Join(NonEmpty(Texts(heap, a)), <<":", " ">>)

\* C7: the trace a constructor has just captured starts at the frame
\* callerSkipLevel - minCallerSkipLevel levels above the function that called
\* the constructor, whenever the stack is that deep: at the direct caller when
\* the level was never adjusted; and AdjustCallerSkipLevel(k) with k >= 0 moves
\* the level, hence that frame, up by k.
C7_TopFrame ==
    /\ (lastCall.op \in CaptureOps /\ lastCall.err.kind # "node" /\ ~lastCall.panic) =>
          LET st == heap[lastCall.ret].StackTrace
              k  == lastCall.level - minCallerSkipLevel
          IN  k < Len(lastCall.cs) =>
                /\ ~st.isNil
                /\ st.frames[1].FunctionName = FuncForPC(lastCall.cs[k + 1]).Name
                /\ st.frames[1].FileName = FuncForPC(lastCall.cs[k + 1]).File
                /\ st.frames[1].Line = FuncForPC(lastCall.cs[k + 1]).Line
    /\ (/\ lastCall.op = "AdjustCallerSkipLevel"
        /\ lastCall.amt >= 0
        /\ lastCall.level + lastCall.amt <= IntMax) =>
          callerSkipLevel = lastCall.level + lastCall.amt

\* C7 witness: after AdjustCallerSkipLevel(1), Wrapf of an opaque cause called
\* from main has captured a trace that starts one level up, at runtime.goexit
C7_Witness ==
    /\ lastCall.op = "Wrapf"
    /\ lastCall.err.kind = "opaque"
    /\ lastCall.level = minCallerSkipLevel + 1
    /\ lastCall.cs[1] = "main"
    /\ heap[lastCall.ret].StackTrace.frames[1].FunctionName = <<"runtime.goexit">>

\* C8: callerSkipLevel never goes below minCallerSkipLevel, and
\* AdjustCallerSkipLevel(amt) leaves it at the larger of minCallerSkipLevel
\* and the (int) sum of its previous value and amt.
C8_SkipClamped ==
    /\ callerSkipLevel >= minCallerSkipLevel
    /\ lastCall.op = "AdjustCallerSkipLevel" =>
          callerSkipLevel = Max({minCallerSkipLevel, WrapInt(lastCall.level + lastCall.amt)})

\* C8 witness: a raised level has been adjusted by an amount that takes the
\* sum below the minimum, and the level is the minimum
C8_Witness ==
    /\ lastCall.op = "AdjustCallerSkipLevel"
    /\ lastCall.level > minCallerSkipLevel
    /\ lastCall.level + lastCall.amt < minCallerSkipLevel
    /\ callerSkipLevel = minCallerSkipLevel

\* One frame as the rendering format prints it
FrameLine(f) ==
    <<" ", " ", "at", " ">> \o f.FunctionName \o <<"(">> \o f.TrimmedFileName \o <<":">>
        \o Itoa(f.Line) \o <<")", "\n">>

\* The stack blocks of the chain c, innermost node first: a line break and the
\* frame lines of every node that owns a trace
RECURSIVE Blocks(_, _)
Blocks(h, c) ==
    IF c = <<>> THEN <<>>
    ELSE Blocks(h, Tail(c))
           \o (IF h[c[1]].StackTrace.isNil THEN <<>>
               ELSE <<"\n">> \o Join([k \in 1..Len(h[c[1]].StackTrace.frames) |->
                                         FrameLine(h[c[1]].StackTrace.frames[k])], <<>>))

\* C10: what %v and %s print is the message-only string followed, for every
\* node of the chain that owns a trace, by a line break and its frames, each as
\* "  at function(trimmedFile:line)\n"; what %-v, %-s and Error() print is the
\* message-only string, which holds no line break.
C10_WithStackFormat ==
    \A a \in Addrs :
        /\ Format(heap, a, "v", FALSE) = Error(heap, a) \o Blocks(heap, Chain(heap, a))
        /\ Format(heap, a, "s", FALSE) = Format(heap, a, "v", FALSE)
        /\ Format(heap, a, "v", TRUE) = Error(heap, a)
        /\ Format(heap, a, "s", TRUE) = Error(heap, a)
        /\ "\n" \notin Chars(Error(heap, a))

\* C10 witness: Wrap(Wrap(E, "a"), "b") has been printed with %v as b: a: x
\* followed by the two frames captured by the inner Wrap
C10_Witness ==
    \E a \in Addrs :
        /\ Len(Chain(heap, a)) = 2
        /\ Format(heap, a, "v", FALSE) =
              <<"b", ":", " ", "a", ":", " ", "x", "\n",
                " ", " ", "at", " ", "main.main", "(", "examples", "/", "main.go", ":",
                "1", "3", ")", "\n",
                " ", " ", "at", " ", "runtime.goexit", "(", "runtime", "/", "asm_amd64.s", ":",
                "2", "3", "6", "2", ")", "\n">>

\* C11: Wrap (and Wrapf) of an absent cause, the nil error or the nil *Error,
\* does not panic: it returns a node whose Inner is nil and whose StackTrace
\* was captured by this call, and rendering that node does not panic.
C11_WrapAbsentNoPanic ==
    (lastCall.op \in {"Wrap", "Wrapf"} /\ lastCall.err.kind \in {"nil", "nilptr"}) =>
        /\ ~lastCall.panic
        /\ lastCall.ret \in Addrs
        /\ heap[lastCall.ret].Inner = NilRef
        /\ heap[lastCall.ret].StackTrace =
               [isNil |-> FALSE,
                frames |-> getStack(lastCall.level,
                                    FullStack("wrapErr", lastCall.op, lastCall.cs)).frames]
        /\ ~errorPanics(heap, lastCall.ret)

\* C12: whatever the skip level, the node returned by New, Errorf and by Wrap
\* or Wrapf of a cause that is no *Error has a StackTrace that is not nil; a
\* capture of no frame gives the empty trace, not the nil one.
C12_TracePresent ==
    (lastCall.op \in CaptureOps /\ lastCall.err.kind \in {"nil", "opaque"} /\ ~lastCall.panic) =>
        /\ ~heap[lastCall.ret].StackTrace.isNil
        /\ (Callers(lastCall.level,
                    FullStack(IF lastCall.op \in {"New", "Errorf"} THEN "newErr" ELSE "wrapErr",
                              lastCall.op, lastCall.cs)) = <<>>) =>
               heap[lastCall.ret].StackTrace = [isNil |-> FALSE, frames |-> <<>>]

\* The elements of s that satisfy Resolvable, in their order
RECURSIVE ResolvableOf(_)
ResolvableOf(s) ==
    IF s = <<>> THEN <<>>
    ELSE (IF Resolvable(Head(s)) THEN <<Head(s)>> ELSE <<>>) \o ResolvableOf(Tail(s))

\* C13: a collected program counter whose function cannot be found does not
\* make the capture panic and is left out: the trace holds the frames of the
\* collected program counters that have a function, in their order, and at
\* most maxStackDepth of them.
C13_UnresolvableOmitted ==
    capIn.done =>
        LET pcs  == Callers(capIn.level, CaptureFull)
            kept == ResolvableOf(pcs)
        IN  /\ ~capOut.panic
            /\ capOut.st.frames = [k \in 1..Len(kept) |-> StackFrame(kept[k])]
            /\ Len(capOut.st.frames) <= maxStackDepth

\* The frame line of f under the indentation of a trace owned at depth d: the
\* two-space separator repeated d+1 times, then "at function(trimmedFile:line)"
IndentedLine(f, d) ==
    Repeat(<<" ", " ">>, d + 1) \o <<"at", " ">> \o f.FunctionName \o <<"(">>
        \o f.TrimmedFileName \o <<":">> \o Itoa(f.Line) \o <<")", "\n">>

\* The stack blocks of the chain c whose first node is at depth d, innermost
\* node first, each trace under the indentation of its depth
RECURSIVE IndentedBlocks(_, _, _)
IndentedBlocks(h, c, d) ==
    IF c = <<>> THEN <<>>
    ELSE IndentedBlocks(h, Tail(c), d + 1)
           \o (IF h[c[1]].StackTrace.isNil THEN <<>>
               ELSE <<"\n">> \o Join([k \in 1..Len(h[c[1]].StackTrace.frames) |->
                                         IndentedLine(h[c[1]].StackTrace.frames[k], d)], <<>>))

\* C14: in the message-with-stack rendering the frame lines of a trace owned by
\* a node at depth d >= 1 are indented by the two-space separator repeated d+1
\* times, longer than the two spaces of a depth-0 trace and growing with d; a
\* depth-0 trace is written unchanged.
C14_NestedIndentation ==
    \A a \in Addrs :
        Format(heap, a, "v", FALSE) = Error(heap, a) \o IndentedBlocks(heap, Chain(heap, a), 0)

\* The *Error objects met from a by following at most n Inner links
RECURSIVE Walk(_, _, _)
Walk(h, a, n) ==
    {a} \cup (IF n > 0 /\ h[a].Inner.kind = "node" THEN Walk(h, h[a].Inner.ref, n - 1) ELSE {})

\* The *Error objects reachable from a through Inner links, a included
Reach(h, a) == Walk(h, a, Len(h))

\* No *Error is reachable from its own Inner
Acyclic(h) ==
    \A a \in 1..Len(h) : h[a].Inner.kind = "node" => a \notin Reach(h, h[a].Inner.ref)

\* C15: after w = Wrap(c, m) with c a *Error chain of any depth, no *Error
\* reachable from w is an object reachable from c or from any *Error built
\* before, so an assignment to any node of c's chain leaves what w renders
\* unchanged; and the Inner links are acyclic.
C15_NoSharedNodes ==
    [][ /\ (lastCall'.op \in {"Wrap", "Wrapf"} /\ lastCall'.err.kind = "node") =>
              \A a \in Addrs : Reach(heap', lastCall'.ret) \cap Reach(heap, a) = {}
        /\ lastCall'.op = "Assign" =>
              \A c \in Addrs : lastCall'.ret \in Reach(heap, c) =>
                  \A w \in WrappersOf(origin, c) :
                      /\ Error(heap', w) = Error(heap, w)
                      /\ Format(heap', w, "v", FALSE) = Format(heap, w, "v", FALSE)
        /\ Acyclic(heap')
      ]_vars

\* C15, as the code has it: after w = Wrap(c, m) with c a *Error chain of any
\* depth, w and w.Inner are new objects and c is not reachable from w, so an
\* assignment to a field of c leaves what w renders unchanged; the copy is
\* shallow, the nodes below c are reachable from w and from c alike; and the
\* Inner links are acyclic.
C15_ShallowCopy ==
    [][ /\ (lastCall'.op \in {"Wrap", "Wrapf"} /\ lastCall'.err.kind = "node") =>
              LET w == lastCall'.ret
                  c == lastCall'.err.ref
                  copied == heap'[w].Inner.ref
              IN  /\ heap'[w].Inner.kind = "node"
                  /\ w \notin Addrs /\ copied \notin Addrs /\ w # copied
                  /\ c \notin Reach(heap', w)
                  /\ Reach(heap', w) = {w, copied} \cup (Reach(heap, c) \ {c})
                  /\ Reach(heap', w) \cap Reach(heap', c) = Reach(heap, c) \ {c}
        /\ lastCall'.op = "Assign" =>
              \A w \in WrappersOf(origin, lastCall'.ret) :
                  /\ Error(heap', w) = Error(heap, w)
                  /\ Format(heap', w, "v", FALSE) = Format(heap, w, "v", FALSE)
        /\ Acyclic(heap')
      ]_vars

\* C15 witness: Wrap has just wrapped a *Error c that has a *Error below it,
\* and that node is reachable from the wrapper as well
C15_Witness ==
    /\ lastCall.op \in {"Wrap", "Wrapf"}
    /\ lastCall.err.kind = "node"
    /\ ~lastCall.panic
    /\ heap[lastCall.err.ref].Inner.kind = "node"
    /\ heap[lastCall.err.ref].Inner.ref \in Reach(heap, lastCall.ret)

\* Every operation so far was a call of New, Errorf, Wrap or Wrapf that
\* returned: each of them, and nothing else, adds one *Error that is no copy
OnlyConstructorCalls ==
    /\ ~lastCall.panic
    /\ nops = Cardinality({a \in Addrs : origin[a].kind # "copy"})

\* The positions in the chain c of the nodes that own a stack trace
Owners(h, c) == {k \in 1..Len(c) : ~h[c[k]].StackTrace.isNil}

====
